---- MODULE Spec2Model ----
(***************************************************************************)
(* LogSure MCP server (src/server/index.js): the tool dispatcher, the      *)
(* lazy Firebase handle, validateUserContext, the permission gate and the  *)
(* three tool handlers, as a state machine.                                *)
(*                                                                         *)
(* One step of the model is the code that runs between two awaits of one   *)
(* invocation: a *Reply action receives the outcome of the backend call    *)
(* the invocation is waiting for and runs the handler up to its next       *)
(* backend call or to its end.  The backend (Firestore, the Cloud          *)
(* Functions) is the environment: every reply is drawn from a bounded set. *)
(*                                                                         *)
(* Task and location documents are identified by their id; title,          *)
(* assignee and instructions are copied verbatim by the code, never        *)
(* tested, and are carried by the id.                                      *)
(***************************************************************************)
EXTENDS Integers, Sequences, FiniteSets, TLC

VARIABLES
    proc,       \* process: "constructed", "serving", "exited"
    exitCode,   \* process.exit status, -1 while running
    env,        \* process.env: LOGSURE_CLERK_TOKEN, LOGSURE_ORG_ID, LOGSURE_USER_ID
    db,         \* this.db: "null" or "firestore"
    adminApps,  \* admin.apps.length > 0
    listed,     \* the answer of the ListTools handler on its way to the host
    inv         \* the tool invocations in flight, one record per slot

vars == <<proc, exitCode, env, db, adminApps, listed, inv>>

-----------------------------------------------------------------------------
(* Bounds *)

MaxInFlight == 2
MaxTasks == 2
MaxLocs == 2

Slots == 1..MaxInFlight

\* undefined / absent / any falsy value of JavaScript
None == "none"

-----------------------------------------------------------------------------
(* Inputs *)

ClerkTokens == {"", "tokA"}
OrgIds == {"", "org1"}
UserIds == {"", "user1"}

ToolNames ==
    {"get_tasks_today", "get_locations", "get_task_status",
     "complete_task", "debug_auth"}

Today == "today"
Dates == {None, "2024-05-01"}
LocationIds == {None, "L1"}
StatusArgs == {None, "pending", "completed", "cancelled"}
TaskIdArgs == {None, "t1"}

\* request.params.arguments; given = FALSE is a request without arguments
Args(given, date, locationId, status, taskId, parentId) ==
    [given |-> given, date |-> date, locationId |-> locationId,
     status |-> status, taskId |-> taskId, parentId |-> parentId]

NoArgs == Args(FALSE, None, None, None, None, None)

ArgsOf(name) ==
    {NoArgs} \cup
    CASE name = "get_tasks_today" ->
            {Args(TRUE, d, l, s, None, None) :
                d \in Dates, l \in LocationIds, s \in {None, "completed"}}
      [] name = "get_locations" ->
            {Args(TRUE, None, None, None, None, p) : p \in LocationIds}
      [] name = "get_task_status" ->
            {Args(TRUE, None, l, s, t, None) :
                l \in LocationIds, s \in StatusArgs, t \in TaskIdArgs}
      [] OTHER ->
            {Args(TRUE, None, None, None, t, None) : t \in TaskIdArgs}

-----------------------------------------------------------------------------
(* Backend documents *)

Roles == {0, 1, 2, 3}

\* users/<id>: userDoc.exists and userDoc.data(); clerkId is copied into the
\* authentication request and never tested
UserDoc(exists, orgId, role) ==
    [exists |-> exists, orgId |-> orgId, role |-> role,
     clerkId |-> IF exists THEN "clerk1" ELSE None]
NoUserData == UserDoc(FALSE, None, 0)
UserDocs ==
    {NoUserData} \cup {UserDoc(TRUE, o, r) : o \in {"org1", "org2"}, r \in Roles}

\* the JSON body of directFirebaseAuthMCP; success is "true", "false" or absent
AuthResult(success, token) == [success |-> success, firebaseToken |-> token]
NoAuthResult == AuthResult(None, None)
AuthResults ==
    {AuthResult("true", "fbTok"), AuthResult("false", None), AuthResult(None, None)}

\* organisations/<id>: one entry of orgData.permissions
Perm(id, roles, wellFormed) == [id |-> id, roles |-> roles, wellFormed |-> wellFormed]

OrgPermissions ==
    << Perm("view_assigned_tasks", {2}, TRUE),
       Perm("view_all_tasks", {1}, TRUE),
       Perm("view_all_locations", {1}, TRUE),
       Perm("manage_locations", {5}, TRUE),
       Perm("complete_tasks", {2, 5}, TRUE) >>

\* orgDoc.data(): undefined, without a permissions list, the list, or a list
\* with an entry that has no roles array
OrgData(defined, permissions) == [defined |-> defined, permissions |-> permissions]
NoOrgData == OrgData(FALSE, <<>>)
OrgDatas ==
    { OrgData(FALSE, <<>>),
      OrgData(TRUE, <<>>),
      OrgData(TRUE, OrgPermissions),
      OrgData(TRUE, <<Perm("view_all_tasks", {}, FALSE)>>) }

TaskStatuses == {None, "pending", "in_progress", "completed", "cancelled"}

\* scheduledTasks document; the id is the position in the snapshot
TaskDoc(id, status, locationId) == [id |-> id, status |-> status, locationId |-> locationId]

\* the status is copied and the locationId looked up independently of one
\* another: every status without a location, two of them with one
TaskShapes ==
    [status : TaskStatuses, locationId : {None}]
        \cup [status : {"pending", "completed"}, locationId : LocationIds \ {None}]

AllTaskSnapshots ==
    UNION { { [k \in 1..n |-> TaskDoc(k, f[k].status, f[k].locationId)] :
                f \in [1..n -> TaskShapes] } : n \in 0..MaxTasks }

\* the documents the query of getTasks can return: the locationId filter is
\* applied by Firestore
TaskSnapshots(locationId) ==
    { s \in AllTaskSnapshots :
        locationId # None => \A k \in 1..Len(s) : s[k].locationId = locationId }

SitePath == <<"Site A", "Pump House">>

\* locations/<id> as read for one task: missing, with a path, or with a name only
LocationLookups == {"missing", "path", "name"}

Levels == {None, "site", "building"}

LocDoc(id, level, path) == [id |-> id, level |-> level, path |-> path]

LocShapes == [level : Levels, path : {None, "path"}]

LocationSnapshots ==
    UNION { { [k \in 1..n |-> LocDoc(k, f[k].level, f[k].path)] :
                f \in [1..n -> LocShapes] } : n \in 0..MaxLocs }

-----------------------------------------------------------------------------
(* Values local to one invocation *)

\* the object returned by validateUserContext
Context(valid, userId, orgId, role, permissions, token) ==
    [valid |-> valid, userId |-> userId, orgId |-> orgId, role |-> role,
     permissions |-> permissions, firebaseToken |-> token]
NoContext == Context(FALSE, None, None, 0, <<>>, None)

\* one line of the markdown text of a response: k is the kind of line, id the
\* document shown, s a string shown, n a number shown, loc a path shown
Line(k, id, s, n, loc) == [k |-> k, id |-> id, s |-> s, n |-> n, loc |-> loc]

Content(text) == [kind |-> "content", error |-> None, text |-> text]
Error(e) == [kind |-> "error", error |-> e, text |-> <<>>]
NoResult == [kind |-> None, error |-> None, text |-> <<>>]

\* the object getUserConfig returns, held in the locals of validateUserContext
NoConfig == [clerkToken |-> None, orgId |-> None, userId |-> None]

IdleSlot ==
    [pc |-> "idle", name |-> None, handler |-> None, args |-> NoArgs,
     at |-> None, config |-> NoConfig, userData |-> NoUserData, authResult |-> NoAuthResult,
     orgData |-> NoOrgData, ctx |-> NoContext,
     calls |-> <<>>, sent |-> <<>>, failed |-> {}, snapshot |-> <<>>, docs |-> <<>>,
     tasks |-> <<>>,
     locations |-> <<>>, log |-> <<>>, result |-> NoResult]

-----------------------------------------------------------------------------
(* Pure functions of the server *)

MapSeq(s, F(_)) == [k \in 1..Len(s) |-> F(s[k])]

RECURSIVE Concat(_)
Concat(ss) == IF ss = <<>> THEN <<>> ELSE Head(ss) \o Concat(Tail(ss))

\* Dispatch with two cases of the switch exchanged
DispatchExchanged(name) ==
    CASE name = "get_tasks_today" -> "handleGetTasksToday"
      [] name = "get_locations" -> "handleGetTaskStatus"
      [] name = "get_task_status" -> "handleGetLocations"
      [] OTHER -> None

\* Dispatch with a case for the completion handler
DispatchWithComplete(name) ==
    CASE name = "get_tasks_today" -> "handleGetTasksToday"
      [] name = "get_locations" -> "handleGetLocations"
      [] name = "get_task_status" -> "handleGetTaskStatus"
      [] name = "complete_task" -> "handleCompleteTask"
      [] OTHER -> None

\* the switch of the CallTool handler
Dispatch(name) ==
    CASE name = "get_tasks_today" -> "handleGetTasksToday"
      [] name = "get_locations" -> "handleGetLocations"
      [] name = "get_task_status" -> "handleGetTaskStatus"
      [] OTHER -> None

\* getUserConfig with the test of the user id left out
getUserConfigNoUserId(e) == ~(e.clerkToken = "" \/ e.orgId = "")

\* getUserConfig: TRUE when it returns, FALSE when it throws
getUserConfig(e) == ~(e.clerkToken = "" \/ e.orgId = "" \/ e.userId = "")

\* the outcomes initializeFirebase can have
InitOutcomes(dbv, apps) ==
    IF dbv # "null" THEN {"ok"}
    ELSE IF apps THEN {"ok", "firestoreFail"}
    ELSE {"ok", "appFail", "firestoreFail"}

\* initializeFirebase that assigns the handle before the step that fails
initializeFirebaseAssignsFirst(dbv, apps, o) ==
    IF dbv # "null" THEN [db |-> dbv, adminApps |-> apps, ok |-> TRUE]
    ELSE IF o = "appFail" THEN [db |-> "firestore", adminApps |-> apps, ok |-> FALSE]
    ELSE IF o = "firestoreFail" THEN [db |-> "firestore", adminApps |-> TRUE, ok |-> FALSE]
    ELSE [db |-> "firestore", adminApps |-> TRUE, ok |-> TRUE]

initializeFirebase(dbv, apps, o) ==
    IF dbv # "null" THEN [db |-> dbv, adminApps |-> apps, ok |-> TRUE]
    ELSE IF o = "appFail" THEN [db |-> "null", adminApps |-> apps, ok |-> FALSE]
    ELSE IF o = "firestoreFail" THEN [db |-> "null", adminApps |-> TRUE, ok |-> FALSE]
    ELSE [db |-> "firestore", adminApps |-> TRUE, ok |-> TRUE]

hasPermission(userPermissions, requiredPermission) ==
    \E k \in 1..Len(userPermissions) : userPermissions[k] = requiredPermission

\* userData?.role || 5
UserRole(userData) == IF userData.role = 0 THEN 5 ELSE userData.role

\* PermIncludes that takes the roles as a rank: any role from userRole up
PermIncludesRank(userRole, perm) == \E r \in perm.roles : r >= userRole

\* perm.roles.includes(userRole)
PermIncludes(userRole, perm) == userRole \in perm.roles

\* orgData?.permissions?.filter(...)?.map(...) || []
PermissionsOf(orgData, userRole) ==
    LET Includes(perm) == PermIncludes(userRole, perm)
        Id(perm) == perm.id
    IN  MapSeq(SelectSeq(orgData.permissions, Includes), Id)

\* perm.roles.includes throws on an entry without a roles array
PermissionsThrow(orgData) ==
    \E k \in 1..Len(orgData.permissions) : ~orgData.permissions[k].wellFormed

MayViewTasks(ctx) ==
    hasPermission(ctx.permissions, "view_assigned_tasks")
        \/ hasPermission(ctx.permissions, "view_all_tasks")

MayViewLocations(ctx) ==
    hasPermission(ctx.permissions, "view_all_locations")
        \/ hasPermission(ctx.permissions, "manage_locations")

MayCompleteTasks(ctx) == hasPermission(ctx.permissions, "complete_tasks")

\* args.date || today
DateOf(args) == IF args.date = None THEN Today ELSE args.date

\* the object getTasks pushes for one document
Task(id, status, locationPath) ==
    [id |-> id, status |-> status, locationPath |-> locationPath]

NormalStatus(status) == IF status = None THEN "pending" ELSE status

TaskOf(doc, locationPath) == Task(doc.id, NormalStatus(doc.status), locationPath)

\* the loop of getTasks up to its next await: documents without a locationId
\* are pushed without a lookup
RECURSIVE Drain(_, _)
Drain(docs, tasks) ==
    IF docs = <<>> \/ Head(docs).locationId # None
    THEN [docs |-> docs, tasks |-> tasks]
    ELSE Drain(Tail(docs), Append(tasks, TaskOf(Head(docs), <<>>)))

\* locationPath of a task after its location lookup
LookupPath(o) ==
    CASE o = "path" -> SitePath
      [] o = "name" -> <<"Pump House">>
      [] OTHER -> <<>>

\* task.locationPath?.join(' > ') || 'Unknown Location'
LocationName(path) == IF path = <<>> THEN <<"Unknown Location">> ELSE path

IsPending(t) == t.status = "pending"
IsCompleted(t) == t.status = "completed"

RenderTasksToday(args, tasks) ==
    LET date == DateOf(args)
        pendingTasks == SelectSeq(tasks, IsPending)
        completedTasks == SelectSeq(tasks, IsCompleted)
        PendingEntry(t) == Line("pendingEntry", t.id, None, 0, LocationName(t.locationPath))
        CompletedEntry(t) == Line("completedEntry", t.id, None, 0, LocationName(t.locationPath))
    IN  IF Len(tasks) = 0
        THEN <<Line("noTasksToday", 0, date, IF args.locationId # None THEN 1 ELSE 0, <<>>)>>
        ELSE <<Line("todayTitle", 0, date, 0, <<>>)>>
             \o (IF Len(pendingTasks) > 0
                 THEN <<Line("pendingHeading", 0, None, Len(pendingTasks), <<>>)>>
                      \o MapSeq(pendingTasks, PendingEntry)
                 ELSE <<>>)
             \o (IF Len(completedTasks) > 0
                 THEN <<Line("completedHeading", 0, None, Len(completedTasks), <<>>)>>
                      \o MapSeq(completedTasks, CompletedEntry)
                 ELSE <<>>)

StatusMatches(status, t) == t.status = status

\* FilterByStatus that never filters
FilterByStatusNever(status, tasks) == tasks

\* args.status ? tasks.filter(...) : tasks
FilterByStatus(status, tasks) ==
    LET Matches(t) == StatusMatches(status, t)
    IN  IF status # None THEN SelectSeq(tasks, Matches) ELSE tasks

StatusEmoji(t) == IF t.status = "completed" THEN "check" ELSE "hourglass"

\* RenderTaskStatus that shows only the task named by args.taskId
RenderTaskStatusOfTaskId(args, tasks) ==
    LET Named(t) == args.taskId = None \/ t.id = 1
        filteredTasks == SelectSeq(FilterByStatus(args.status, tasks), Named)
        Entry(t) == Line("statusEntry", t.id, StatusEmoji(t), 0, LocationName(t.locationPath))
    IN  IF Len(filteredTasks) = 0
        THEN <<Line("noTasksStatus", 0, args.status, 0, <<>>)>>
        ELSE <<Line("statusHeading", 0, args.status, Len(filteredTasks), <<>>)>>
             \o MapSeq(filteredTasks, Entry)

RenderTaskStatus(args, tasks) ==
    LET filteredTasks == FilterByStatus(args.status, tasks)
        Entry(t) == Line("statusEntry", t.id, StatusEmoji(t), 0, LocationName(t.locationPath))
    IN  IF Len(filteredTasks) = 0
        THEN <<Line("noTasksStatus", 0, args.status, 0, <<>>)>>
        ELSE <<Line("statusHeading", 0, args.status, Len(filteredTasks), <<>>)>>
             \o MapSeq(filteredTasks, Entry)

\* the object getLocations pushes for one document
Location(id, level, path) == [id |-> id, level |-> level, path |-> path]

LocationOf(doc) ==
    Location(doc.id,
             IF doc.level = None THEN "unknown" ELSE doc.level,
             IF doc.path = None THEN <<>> ELSE <<"Site A", "Building 1">>)

\* the level names in the order the hierarchy has them, not sorted
LevelOrderOfHierarchy == <<"site", "building", "unknown">>

\* the level names in the order Array.prototype.sort gives them
LevelOrder == <<"building", "site", "unknown">>

\* level.toUpperCase()
ToUpperCase(level) ==
    CASE level = "building" -> "BUILDING"
      [] level = "site" -> "SITE"
      [] OTHER -> "UNKNOWN"

RenderLocations(locations) ==
    LET Group(level) ==
            LET AtLevel(l) == l.level = level
                Entry(l) == Line("locationEntry", l.id, None, 0, l.path)
                members == SelectSeq(locations, AtLevel)
            IN  IF members = <<>> THEN <<>>
                ELSE <<Line("levelHeading", 0, ToUpperCase(level), 0, <<>>)>>
                     \o MapSeq(members, Entry)
    IN  IF Len(locations) = 0
        THEN <<Line("noLocations", 0, None, 0, <<>>)>>
        ELSE <<Line("locationsTitle", 0, None, Len(locations), <<>>)>>
             \o Concat(MapSeq(LevelOrder, Group))

\* one console.error: the source line, and the values it prints, each in full
\* or cut to its first eight characters.  Lines that print a constant text
\* only are left out, and so are numbers and booleans.
Diag(line, shown) == [line |-> line, shown |-> shown]
Full(v) == <<v, "full">>
Prefix8(v) == <<v, "prefix8">>

Log(s, lines) == [s EXCEPT !.log = @ \o lines]

\* what the catch blocks print for error e thrown in function at: the catch of
\* the function, then the catch of the CallTool handler
ErrorLines(at, e) ==
    (CASE at = "initializeFirebase" -> <<Diag(55, {Full(e)})>>
       [] at = "validateUserContext" /\ e = "Authentication" -> <<Diag(215, {Full(e)})>>
       [] at = "getTasks" -> <<Diag(540, {Full(e)})>>
       [] at = "getLocations" -> <<Diag(564, {Full(e)})>>
       [] OTHER -> <<>>)
    \o <<Diag(138, {Full(e)})>>

\* validateUserContext between getUserConfig and the read of the user document
ConfigLines(c) ==
    << Diag(148, {Prefix8(c.userId), Prefix8(c.orgId)}),
       Diag(151, {Full(c.userId)}),
       Diag(152, {Full(c.orgId)}) >>

\* validateUserContext on the user document it found
UserDataLines(c, userData) ==
    << Diag(161, {Full(c.userId)}),
       Diag(162, {Full(userData.orgId)}),
       Diag(163, {Full(c.orgId)}),
       Diag(164, {Full(userData.orgId), Full(userData.clerkId)}) >>

\* validateUserContext before the authentication request
SendingLines(c, userData) ==
    <<Diag(174, {Full(userData.clerkId)}), Diag(175, {Full(c.orgId)})>>

\* JSON.stringify(result): the fields the result has
ResultLines(result) ==
    <<Diag(196, {Full(v) : v \in {result.success, result.firebaseToken} \ {None}})>>

\* the user document has been read
SeenUserDoc(s, doc) ==
    Log([s EXCEPT !.userData = doc],
        IF doc.exists THEN UserDataLines(s.config, doc) ELSE <<>>)

\* the invocation ends in function at: the handler returns content or an error
\* is thrown to the CallTool handler, which rethrows it
Finish(s, at, res) ==
    [s EXCEPT !.pc = "done", !.at = at, !.result = res,
              !.log = IF res.kind = "error" THEN @ \o ErrorLines(at, res.error) ELSE @]

\* a request to the backend: the call site and what the call carries, as
\* <<key, value>> pairs (the document id of a get, the where clauses of a
\* query, the body and the headers of a fetch)
Outbound(site, params) == [site |-> site, params |-> params]

\* the date getTasks is called with
TasksDate(s) == IF s.handler = "handleGetTasksToday" THEN DateOf(s.args) ELSE Today

\* RequestOf with the durable token in the body of the authentication request
RequestOfWithToken(s, site) ==
    Outbound(site,
        IF site = "auth.fetch"
        THEN {<<"content-type", "application/json">>,
              <<"userId", s.userData.clerkId>>, <<"orgId", s.config.orgId>>,
              <<"clerkToken", s.config.clerkToken>>}
        ELSE {<<"doc", IF site = "users.get" THEN s.config.userId ELSE s.config.orgId>>})

\* what invocation s sends at call site site
RequestOf(s, site) ==
    Outbound(site,
        CASE site = "users.get" -> {<<"doc", s.config.userId>>}
          [] site = "auth.fetch" ->
                {<<"content-type", "application/json">>,
                 <<"userId", s.userData.clerkId>>, <<"orgId", s.config.orgId>>}
          [] site = "organisations.get" -> {<<"doc", s.config.orgId>>}
          [] site = "scheduledTasks.query" ->
                {<<"orgId", s.ctx.orgId>>, <<"date", TasksDate(s)>>}
                    \cup (IF s.args.locationId # None
                          THEN {<<"locationId", s.args.locationId>>} ELSE {})
          [] site = "locations.get" -> {<<"doc", Head(s.docs).locationId>>}
          [] site = "locations.query" -> {<<"orgId", s.ctx.orgId>>}
          [] OTHER ->
                {<<"content-type", "application/json">>,
                 <<"authorization", s.ctx.firebaseToken>>,
                 <<"taskId", s.args.taskId>>, <<"userId", s.ctx.userId>>})

\* function at of the invocation issues a backend call and awaits its reply
Issue(s, at, site, pc) ==
    [s EXCEPT !.pc = pc, !.at = at, !.calls = Append(@, site),
              !.sent = Append(@, RequestOf(s, site))]

\* the awaited backend call failed
Failed(s, site) == [s EXCEPT !.failed = @ \cup {site}]

-----------------------------------------------------------------------------
(* The handlers, from one await to the next *)

\* Enter with the configuration never tested
EnterNoConfig(e, name, handler, args, initOk) ==
    LET s == [IdleSlot EXCEPT !.name = name, !.handler = handler, !.args = args]
    IN  IF ~initOk THEN Finish(s, "initializeFirebase", Error("FirebaseInit"))
        ELSE Issue(Log([s EXCEPT !.config = e], ConfigLines(e)),
                   "validateUserContext", "users.get", "userDoc")

\* handleX up to the first await, with process.env = e: initializeFirebase,
\* then validateUserContext up to the read of the user document
Enter(e, name, handler, args, initOk) ==
    LET s == [IdleSlot EXCEPT !.name = name, !.handler = handler, !.args = args]
    IN  IF ~initOk THEN Finish(s, "initializeFirebase", Error("FirebaseInit"))
        ELSE IF ~getUserConfig(e)
             THEN Finish(s, "validateUserContext", Error("Configuration"))
        ELSE Issue(Log([s EXCEPT !.config = e], ConfigLines(e)),
                   "validateUserContext", "users.get", "userDoc")

\* the CallTool handler: the switch on the tool name
CallTool(e, name, args, initOk) ==
    IF Dispatch(name) = None
    THEN Finish([IdleSlot EXCEPT !.name = name, !.args = args],
                "CallTool", Error("UnknownTool"))
    ELSE Enter(e, name, Dispatch(name), args, initOk)

\* the replies of users/<id>.get()
UserDocReplies ==
    {[ok |-> FALSE, doc |-> NoUserData]} \cup {[ok |-> TRUE, doc |-> d] : d \in UserDocs}

\* AfterUserDoc without the call of the authentication endpoint
AfterUserDocNoEndpoint(s, r) ==
    LET t == SeenUserDoc(s, r.doc)
    IN  IF ~r.ok
        THEN Finish(Failed(s, "users.get"), "validateUserContext", Error("Authentication"))
        ELSE IF ~r.doc.exists
             THEN Finish(t, "validateUserContext", Error("Authentication"))
        ELSE IF r.doc.orgId # s.config.orgId
             THEN Finish(t, "validateUserContext", Error("Authentication"))
        ELSE Issue(Log(t, SendingLines(t.config, t.userData)),
                   "validateUserContext", "organisations.get", "orgDoc")

\* AfterUserDoc with the organisation of the user never compared
AfterUserDocAnyOrg(s, r) ==
    LET t == SeenUserDoc(s, r.doc)
    IN  IF ~r.ok
        THEN Finish(Failed(s, "users.get"), "validateUserContext", Error("Authentication"))
        ELSE IF ~r.doc.exists
             THEN Finish(t, "validateUserContext", Error("Authentication"))
        ELSE Issue(Log(t, SendingLines(t.config, t.userData)),
                   "validateUserContext", "auth.fetch", "authFetch")

\* AfterUserDoc that goes on to the authentication endpoint with whatever
\* document it read
AfterUserDocUnchecked(s, r) ==
    LET t == SeenUserDoc(s, r.doc)
    IN  IF ~r.ok
        THEN Finish(Failed(s, "users.get"), "validateUserContext", Error("Authentication"))
        ELSE Issue(Log(t, SendingLines(t.config, t.userData)),
                   "validateUserContext", "auth.fetch", "authFetch")

\* validateUserContext from the user document to the authentication call
AfterUserDoc(s, r) ==
    LET t == SeenUserDoc(s, r.doc)
    IN  IF ~r.ok
        THEN Finish(Failed(s, "users.get"), "validateUserContext", Error("Authentication"))
        ELSE IF ~r.doc.exists
             THEN Finish(t, "validateUserContext", Error("Authentication"))
        ELSE IF r.doc.orgId # s.config.orgId
             THEN Finish(t, "validateUserContext", Error("Authentication"))
        ELSE Issue(Log(t, SendingLines(t.config, t.userData)),
                   "validateUserContext", "auth.fetch", "authFetch")

\* the replies of fetch(directFirebaseAuthMCP): fetch rejects, a non-2xx
\* status, a body that is no JSON, or a JSON body
AuthReplies ==
    {[kind |-> k, result |-> NoAuthResult] : k \in {"throw", "notOk", "badJson"}}
        \cup {[kind |-> "ok", result |-> a] : a \in AuthResults}

\* AfterAuthFetch that sends the authentication request again after a failure
AfterAuthFetchAgain(s, r) ==
    IF r.kind # "ok"
    THEN IF "auth.fetch" \in s.failed
         THEN Finish(s, "validateUserContext", Error("Authentication"))
         ELSE Issue(Failed(s, "auth.fetch"), "validateUserContext", "auth.fetch", "authFetch")
    ELSE Issue(Log([s EXCEPT !.authResult = r.result], ResultLines(r.result)),
               "validateUserContext", "organisations.get", "orgDoc")

\* validateUserContext from the authentication reply to the organisation read
AfterAuthFetch(s, r) ==
    IF r.kind # "ok"
    THEN Finish(Log(Failed(s, "auth.fetch"),
                    IF r.kind = "notOk" THEN <<Diag(191, {Full("errorText")})>> ELSE <<>>),
                "validateUserContext", Error("Authentication"))
    ELSE Issue(Log([s EXCEPT !.authResult = r.result], ResultLines(r.result)),
               "validateUserContext", "organisations.get", "orgDoc")

\* the replies of organisations/<id>.get()
OrgDocReplies ==
    {[ok |-> FALSE, data |-> OrgData(FALSE, <<>>)]}
        \cup {[ok |-> TRUE, data |-> d] : d \in OrgDatas}

\* handleGetTasksToday after validateUserContext, up to the query of getTasks
GetTasksTodayBody(s) ==
    IF ~MayViewTasks(s.ctx) THEN Finish(s, s.handler, Error("Authorization"))
    ELSE IF ~s.args.given THEN Finish(s, s.handler, Error("TypeError"))
    ELSE Issue(s, "getTasks", "scheduledTasks.query", "tasksQuery")

\* GetLocationsBody with the permission check left out
GetLocationsBodyUngated(s) ==
    Issue(s, "getLocations", "locations.query", "locationsQuery")

\* handleGetLocations after validateUserContext, up to the query of getLocations
GetLocationsBody(s) ==
    IF ~MayViewLocations(s.ctx) THEN Finish(s, s.handler, Error("Authorization"))
    ELSE Issue(s, "getLocations", "locations.query", "locationsQuery")

\* handleGetTaskStatus after validateUserContext, up to the query of getTasks
GetTaskStatusBody(s) ==
    IF ~MayViewTasks(s.ctx) THEN Finish(s, s.handler, Error("Authorization"))
    ELSE IF ~s.args.given THEN Finish(s, s.handler, Error("TypeError"))
    ELSE Issue(s, "getTasks", "scheduledTasks.query", "tasksQuery")

\* handleCompleteTask after validateUserContext, up to the fetch of completeTask
CompleteTaskBody(s) ==
    IF ~MayCompleteTasks(s.ctx) THEN Finish(s, s.handler, Error("Authorization"))
    ELSE IF ~s.args.given THEN Finish(s, s.handler, Error("TypeError"))
    ELSE IF s.args.taskId = None THEN Finish(s, s.handler, Error("Validation"))
    ELSE Issue(s, "completeTask", "completeTask.fetch", "completeFetch")

HandlerBody(s) ==
    CASE s.handler = "handleGetTasksToday" -> GetTasksTodayBody(s)
      [] s.handler = "handleGetLocations" -> GetLocationsBody(s)
      [] s.handler = "handleGetTaskStatus" -> GetTaskStatusBody(s)
      [] OTHER -> CompleteTaskBody(s)

\* validateUserContext from the organisation document to its return, and the
\* handler that awaited it
AfterOrgDoc(s, r) ==
    IF ~r.ok
    THEN Finish(Failed(s, "organisations.get"), "validateUserContext", Error("Authentication"))
    ELSE IF PermissionsThrow(r.data)
         THEN Finish(s, "validateUserContext", Error("Authentication"))
    ELSE HandlerBody([s EXCEPT !.orgData = r.data, !.ctx =
            Context(TRUE, s.config.userId, s.config.orgId, UserRole(s.userData),
                    PermissionsOf(r.data, UserRole(s.userData)),
                    s.authResult.firebaseToken)])

\* the text the handler of s returns for the tasks getTasks returned
RenderTasks(s) ==
    IF s.handler = "handleGetTasksToday"
    THEN RenderTasksToday(s.args, s.tasks)
    ELSE RenderTaskStatus(s.args, s.tasks)

\* the loop of getTasks: up to the next location lookup, or to the return of
\* getTasks and of the handler
LoopGetTasks(s) ==
    LET d == Drain(s.docs, s.tasks)
        t == [s EXCEPT !.docs = d.docs, !.tasks = d.tasks]
    IN  IF d.docs = <<>> THEN Finish(t, t.handler, Content(RenderTasks(t)))
        ELSE Issue(t, "getTasks", "locations.get", "locLookup")

\* the replies of the scheduledTasks query
TasksReplies(locationId) ==
    {[ok |-> FALSE, docs |-> <<>>]}
        \cup {[ok |-> TRUE, docs |-> d] : d \in TaskSnapshots(locationId)}

\* AfterTasksQuery that takes a failed query for an empty snapshot
AfterTasksQuerySwallowed(s, r) ==
    IF ~r.ok THEN LoopGetTasks(Failed(s, "scheduledTasks.query"))
    ELSE LoopGetTasks([s EXCEPT !.snapshot = r.docs, !.docs = r.docs])

\* getTasks from the snapshot on
AfterTasksQuery(s, r) ==
    IF ~r.ok
    THEN Finish(Failed(s, "scheduledTasks.query"), "getTasks", Error("RetrieveTasks"))
    ELSE LoopGetTasks([s EXCEPT !.snapshot = r.docs, !.docs = r.docs])

\* the replies of locations/<id>.get() for one task
LookupReplies == {"fail"} \cup LocationLookups

\* getTasks from the location document of the task at the head of docs on: a
\* failed lookup is logged and leaves the path empty
AfterLocationLookup(s, o) ==
    LET t == IF o = "fail"
             THEN Log(Failed(s, "locations.get"), <<Diag(524, {Full("error")})>>)
             ELSE s
    IN  LoopGetTasks([t EXCEPT !.tasks = Append(@, TaskOf(Head(s.docs), LookupPath(o))),
                               !.docs = Tail(@)])

\* the replies of the locations query
LocationsReplies ==
    {[ok |-> FALSE, docs |-> <<>>]}
        \cup {[ok |-> TRUE, docs |-> d] : d \in LocationSnapshots}

\* getLocations from the snapshot on, and handleGetLocations to its return
AfterLocationsQuery(s, r) ==
    IF ~r.ok
    THEN Finish(Failed(s, "locations.query"), "getLocations", Error("RetrieveLocations"))
    ELSE LET t == [s EXCEPT !.locations = MapSeq(r.docs, LocationOf)]
         IN  Finish(t, t.handler, Content(RenderLocations(t.locations)))

\* ToolList with the completion tool advertised
ToolListWithComplete ==
    <<"get_tasks_today", "get_locations", "get_task_status", "complete_task">>

\* the answer of the ListTools handler
ToolList == <<"get_tasks_today", "get_locations", "get_task_status">>

-----------------------------------------------------------------------------
(* Actions *)

Init ==
    /\ proc = "constructed"
    /\ exitCode = -1
    /\ env \in [clerkToken : ClerkTokens, orgId : OrgIds, userId : UserIds]
    /\ db = "null"
    /\ adminApps = FALSE
    /\ listed = <<>>
    /\ inv = [i \in Slots |-> IdleSlot]

\* run(): server.connect resolves, or rejects and the process exits with 1
Run ==
    /\ proc = "constructed"
    /\ \E connected \in BOOLEAN :
          /\ proc' = IF connected THEN "serving" ELSE "exited"
          /\ exitCode' = IF connected THEN exitCode ELSE 1
    /\ UNCHANGED <<env, db, adminApps, listed, inv>>

Signals == {"SIGINT", "SIGTERM"}

\* the exit status of a process ended by the signal with no handler installed
ExitStatusDefault(sig) == IF sig = "SIGINT" THEN 130 ELSE 143

\* the argument of process.exit in the handler of the signal
ExitStatus(sig) ==
    CASE sig = "SIGINT" -> 0
      [] sig = "SIGTERM" -> 0

\* SIGINT or SIGTERM: process.exit(0) at once; what was in flight is gone with
\* the process
Signal ==
    /\ proc \in {"constructed", "serving"}
    /\ proc' = "exited"
    /\ \E sig \in Signals : exitCode' = ExitStatus(sig)
    /\ inv' = [i \in Slots |-> IdleSlot]
    /\ listed' = <<>>
    /\ UNCHANGED <<env, db, adminApps>>

\* nothing is awaiting an answer: the host sends one request at a time
HostIdle == listed = <<>> /\ \A j \in Slots : inv[j].pc = "idle"

\* a tools/list request arrives: the ListTools handler answers it
ListTools ==
    /\ proc = "serving"
    /\ HostIdle
    /\ listed' = ToolList
    /\ UNCHANGED <<proc, exitCode, env, db, adminApps, inv>>

\* the tool listing goes to the host
DeliverList ==
    /\ proc = "serving"
    /\ listed # <<>>
    /\ listed' = <<>>
    /\ UNCHANGED <<proc, exitCode, env, db, adminApps, inv>>

\* the lowest free slot
FreeSlot == CHOOSE i \in Slots : inv[i].pc = "idle" /\ \A j \in 1..(i - 1) : inv[j].pc # "idle"

\* a tools/call request arrives: the CallTool handler runs up to its first await
Call(i, name, args) ==
    /\ proc = "serving"
    /\ inv[i].pc = "idle"
    /\ \E o \in InitOutcomes(db, adminApps) :
          LET f == IF Dispatch(name) = None
                   THEN [db |-> db, adminApps |-> adminApps, ok |-> TRUE]
                   ELSE initializeFirebase(db, adminApps, o)
          IN  /\ db' = f.db
              /\ adminApps' = f.adminApps
              /\ inv' = [inv EXCEPT ![i] = CallTool(env, name, args, f.ok)]
    /\ UNCHANGED <<proc, exitCode, env, listed>>

\* the host sends one request at a time
Request ==
    /\ HostIdle
    /\ \E name \in ToolNames : \E args \in ArgsOf(name) : Call(FreeSlot, name, args)

UserDocReply(i) ==
    /\ proc = "serving"
    /\ inv[i].pc = "userDoc"
    /\ \E r \in UserDocReplies : inv' = [inv EXCEPT ![i] = AfterUserDoc(@, r)]
    /\ UNCHANGED <<proc, exitCode, env, db, adminApps, listed>>

AuthReply(i) ==
    /\ proc = "serving"
    /\ inv[i].pc = "authFetch"
    /\ \E r \in AuthReplies : inv' = [inv EXCEPT ![i] = AfterAuthFetch(@, r)]
    /\ UNCHANGED <<proc, exitCode, env, db, adminApps, listed>>

OrgDocReply(i) ==
    /\ proc = "serving"
    /\ inv[i].pc = "orgDoc"
    /\ \E r \in OrgDocReplies : inv' = [inv EXCEPT ![i] = AfterOrgDoc(@, r)]
    /\ UNCHANGED <<proc, exitCode, env, db, adminApps, listed>>

TasksReply(i) ==
    /\ proc = "serving"
    /\ inv[i].pc = "tasksQuery"
    /\ \E r \in TasksReplies(inv[i].args.locationId) :
          inv' = [inv EXCEPT ![i] = AfterTasksQuery(@, r)]
    /\ UNCHANGED <<proc, exitCode, env, db, adminApps, listed>>

LocationLookupReply(i) ==
    /\ proc = "serving"
    /\ inv[i].pc = "locLookup"
    /\ \E o \in LookupReplies : inv' = [inv EXCEPT ![i] = AfterLocationLookup(@, o)]
    /\ UNCHANGED <<proc, exitCode, env, db, adminApps, listed>>

LocationsReply(i) ==
    /\ proc = "serving"
    /\ inv[i].pc = "locationsQuery"
    /\ \E r \in LocationsReplies : inv' = [inv EXCEPT ![i] = AfterLocationsQuery(@, r)]
    /\ UNCHANGED <<proc, exitCode, env, db, adminApps, listed>>

\* the response, or the error, of a finished invocation goes to the host
Deliver(i) ==
    /\ proc = "serving"
    /\ inv[i].pc = "done"
    /\ inv' = [inv EXCEPT ![i] = IdleSlot]
    /\ UNCHANGED <<proc, exitCode, env, db, adminApps, listed>>

Step(i) ==
    \/ UserDocReply(i)
    \/ AuthReply(i)
    \/ OrgDocReply(i)
    \/ TasksReply(i)
    \/ LocationLookupReply(i)
    \/ LocationsReply(i)
    \/ Deliver(i)

Next ==
    \/ Run
    \/ Signal
    \/ ListTools
    \/ DeliverList
    \/ Request
    \/ \E i \in Slots : Step(i)

Spec == Init /\ [][Next]_vars

-----------------------------------------------------------------------------
(* Two runs side by side *)

(***************************************************************************)
(* PairSpec runs two invocations of the same tool against the same         *)
(* backend, each in a process of its own: the left one in slot Left under  *)
(* env, the right one in slot Right.  The right run differs from the left  *)
(* one in one thing: its taskId argument, or the durable token of its      *)
(* configuration.  Every backend reply is given to both runs at once.      *)
(***************************************************************************)

Left == 1
Right == 2

TokenB == "tokB"

\* the arguments of the left run: no taskId
LeftArgs(name) == {a \in ArgsOf(name) : a.taskId = None}

\* what the right run is started with
Variants(e, name, args) ==
    (IF name = "get_task_status" /\ args.given
     THEN {[env |-> e, args |-> [args EXCEPT !.taskId = "t1"]]} ELSE {})
    \cup (IF e.clerkToken # ""
          THEN {[env |-> [e EXCEPT !.clerkToken = TokenB], args |-> args]} ELSE {})

\* both runs are called; initializeFirebase has the same outcome in both
PairCall ==
    /\ proc = "serving"
    /\ inv[Left].pc = "idle"
    /\ inv[Right].pc = "idle"
    /\ \E name \in ToolNames : \E args \in LeftArgs(name) :
       \E v \in Variants(env, name, args) : \E o \in InitOutcomes(db, adminApps) :
          LET f == IF Dispatch(name) = None
                   THEN [db |-> db, adminApps |-> adminApps, ok |-> TRUE]
                   ELSE initializeFirebase(db, adminApps, o)
          IN  /\ db' = f.db
              /\ adminApps' = f.adminApps
              /\ inv' = [inv EXCEPT ![Left] = CallTool(env, name, args, f.ok),
                                    ![Right] = CallTool(v.env, name, v.args, f.ok)]
    /\ UNCHANGED <<proc, exitCode, env, listed>>

\* both runs await the same call
PairAt(pc) == proc = "serving" /\ inv[Left].pc = pc /\ inv[Right].pc = pc

PairUserDocReply ==
    /\ PairAt("userDoc")
    /\ \E r \in UserDocReplies :
          inv' = [inv EXCEPT ![Left] = AfterUserDoc(@, r), ![Right] = AfterUserDoc(@, r)]
    /\ UNCHANGED <<proc, exitCode, env, db, adminApps, listed>>

PairAuthReply ==
    /\ PairAt("authFetch")
    /\ \E r \in AuthReplies :
          inv' = [inv EXCEPT ![Left] = AfterAuthFetch(@, r), ![Right] = AfterAuthFetch(@, r)]
    /\ UNCHANGED <<proc, exitCode, env, db, adminApps, listed>>

PairOrgDocReply ==
    /\ PairAt("orgDoc")
    /\ \E r \in OrgDocReplies :
          inv' = [inv EXCEPT ![Left] = AfterOrgDoc(@, r), ![Right] = AfterOrgDoc(@, r)]
    /\ UNCHANGED <<proc, exitCode, env, db, adminApps, listed>>

PairTasksReply ==
    /\ PairAt("tasksQuery")
    /\ \E r \in TasksReplies(inv[Left].args.locationId) :
          inv' = [inv EXCEPT ![Left] = AfterTasksQuery(@, r), ![Right] = AfterTasksQuery(@, r)]
    /\ UNCHANGED <<proc, exitCode, env, db, adminApps, listed>>

PairLocationLookupReply ==
    /\ PairAt("locLookup")
    /\ \E o \in LookupReplies :
          inv' = [inv EXCEPT ![Left] = AfterLocationLookup(@, o),
                             ![Right] = AfterLocationLookup(@, o)]
    /\ UNCHANGED <<proc, exitCode, env, db, adminApps, listed>>

PairLocationsReply ==
    /\ PairAt("locationsQuery")
    /\ \E r \in LocationsReplies :
          inv' = [inv EXCEPT ![Left] = AfterLocationsQuery(@, r),
                             ![Right] = AfterLocationsQuery(@, r)]
    /\ UNCHANGED <<proc, exitCode, env, db, adminApps, listed>>

\* both responses go to the host
PairDeliver ==
    /\ PairAt("done")
    /\ inv' = [inv EXCEPT ![Left] = IdleSlot, ![Right] = IdleSlot]
    /\ UNCHANGED <<proc, exitCode, env, db, adminApps, listed>>

PairNext ==
    \/ Run
    \/ PairCall
    \/ PairUserDocReply
    \/ PairAuthReply
    \/ PairOrgDocReply
    \/ PairTasksReply
    \/ PairLocationLookupReply
    \/ PairLocationsReply
    \/ PairDeliver

PairSpec == Init /\ [][PairNext]_vars

-----------------------------------------------------------------------------
(* A host that does not wait *)

(***************************************************************************)
(* PipelinedSpec: the transport hands every request to the CallTool        *)
(* handler as it arrives, so a request that arrives while an invocation    *)
(* awaits a backend reply starts a second invocation.  The backend answers *)
(* from small sets here: one user, one organisation, at most one document  *)
(* per snapshot.                                                           *)
(***************************************************************************)

\* the data of one invocation under PipelinedSpec
SmallSlot(s) ==
    /\ s.args \in {NoArgs, Args(TRUE, None, None, None, None, None),
                   Args(TRUE, None, "L1", None, None, None)}
    /\ s.userData \in {NoUserData, UserDoc(TRUE, "org1", 1)}
    /\ s.authResult \in {NoAuthResult, AuthResult("true", "fbTok")}
    /\ s.orgData \in {NoOrgData, OrgData(TRUE, OrgPermissions)}
    /\ Len(s.snapshot) <= 1
    /\ \A k \in 1..Len(s.snapshot) : s.snapshot[k].status = "pending"
    /\ Len(s.locations) <= 1

Small == \A i \in Slots : SmallSlot(inv[i])

\* a tools/call request arrives, whatever else is in flight
Arrive ==
    /\ \E i \in Slots : inv[i].pc = "idle"
    /\ \E name \in ToolNames : \E args \in ArgsOf(name) : Call(FreeSlot, name, args)
    /\ Small'

PipelinedStep(i) ==
    \/ UserDocReply(i) /\ Small'
    \/ AuthReply(i) /\ Small'
    \/ OrgDocReply(i) /\ Small'
    \/ TasksReply(i) /\ Small'
    \/ LocationLookupReply(i) /\ Small'
    \/ LocationsReply(i) /\ Small'
    \/ Deliver(i)

PipelinedNext ==
    \/ Run
    \/ Signal
    \/ Arrive
    \/ \E i \in Slots : PipelinedStep(i)

PipelinedSpec == Init /\ [][PipelinedNext]_vars


-----------------------------------------------------------------------------
(* handleCompleteTask, invoked as a case of the switch would invoke it *)

\* the arguments of a completion: none, without taskId, with taskId; notes absent
CompleteArgs ==
    {NoArgs} \cup {Args(TRUE, None, None, None, t, None) : t \in TaskIdArgs}

\* the outcomes of the fetch of completeTask and of response.json()
CompleteFetchReplies == {"throw", "notOk", "badJson", "ok"}

\* completeTask from the reply of its fetch, and handleCompleteTask after it:
\* completeTask catches every failure, logs it and returns success false, and
\* the handler throws the message
AfterCompleteFetch(s, r) ==
    IF r # "ok"
    THEN Finish(Log(Failed(s, "completeTask.fetch"), <<Diag(594, {Full("Completion")})>>),
                s.handler, Error("Completion"))
    ELSE Finish(s, s.handler, Content(<<Line("taskCompleted", s.args.taskId, None, 0, <<>>)>>))

\* handleCompleteTask is invoked: initializeFirebase, then validateUserContext
\* up to its first await
InvokeComplete ==
    /\ proc = "serving"
    /\ HostIdle
    /\ \E args \in CompleteArgs : \E o \in InitOutcomes(db, adminApps) :
          LET f == initializeFirebase(db, adminApps, o)
          IN  /\ db' = f.db
              /\ adminApps' = f.adminApps
              /\ inv' = [inv EXCEPT ![FreeSlot] =
                            Enter(env, "complete_task", "handleCompleteTask", args, f.ok)]
    /\ UNCHANGED <<proc, exitCode, env, listed>>

CompleteFetchReply(i) ==
    /\ proc = "serving"
    /\ inv[i].pc = "completeFetch"
    /\ \E r \in CompleteFetchReplies : inv' = [inv EXCEPT ![i] = AfterCompleteFetch(@, r)]
    /\ UNCHANGED <<proc, exitCode, env, db, adminApps, listed>>

CompleteStep(i) ==
    \/ UserDocReply(i)
    \/ AuthReply(i)
    \/ OrgDocReply(i)
    \/ CompleteFetchReply(i)
    \/ Deliver(i)

CompleteNext ==
    \/ Run
    \/ Signal
    \/ InvokeComplete
    \/ \E i \in Slots : CompleteStep(i)

CompleteSpec == Init /\ [][CompleteNext]_vars
-----------------------------------------------------------------------------
(* Vocabulary of the properties *)

KnownTools == {"get_tasks_today", "get_locations", "get_task_status"}

\* the capabilities one of which a tool requires
RequiredCapabilities(name) ==
    IF name = "get_locations"
    THEN {"view_all_locations", "manage_locations"}
    ELSE {"view_assigned_tasks", "view_all_tasks"}

PermissionSet(ctx) == {ctx.permissions[k] : k \in 1..Len(ctx.permissions)}

CallSet(s) == {s.calls[k] : k \in 1..Len(s.calls)}

\* the calls made by getTasks and getLocations
DataFetchSites == {"scheduledTasks.query", "locations.get", "locations.query"}

NoDataFetch(s) == CallSet(s) \cap DataFetchSites = {}

AuthenticationSites == {"users.get", "auth.fetch", "organisations.get"}

\* the reply of the user document has arrived
UserDocSeen(s) ==
    Len(s.calls) >= 1 /\ s.pc # "userDoc" /\ "users.get" \notin s.failed

\* the authentication endpoint has answered with a success status and a JSON body
AuthResultSeen(s) ==
    Len(s.calls) >= 2 /\ s.pc # "authFetch" /\ "auth.fetch" \notin s.failed

\* one of the listed ways authentication fails
AuthenticationFails(s) ==
    \/ s.failed \cap AuthenticationSites # {}
    \/ UserDocSeen(s) /\ (~s.userData.exists \/ s.userData.orgId # env.orgId)

\* one of the three required environment values is absent or empty
ConfigMissing == env.clerkToken = "" \/ env.orgId = "" \/ env.userId = ""

EndsIn(s, e) == s.pc = "done" /\ s.result = Error(e)

-----------------------------------------------------------------------------
(* Properties *)

\* C1: in an invocation of one of the three tools whose resolved permission
\* set holds none of the capabilities the tool requires, the invocation ends
\* in the authorization error and getTasks / getLocations issued no call.
C1_NoPermissionNoFetch ==
    \A i \in Slots :
        LET s == inv[i]
        IN  (/\ s.name \in KnownTools
             /\ s.ctx.valid
             /\ PermissionSet(s.ctx) \cap RequiredCapabilities(s.name) = {})
            => EndsIn(s, "Authorization") /\ NoDataFetch(s)

\* a role that may complete tasks and manage locations asks for the task status
C1_Witness ==
    \E i \in Slots :
        /\ inv[i].name = "get_task_status"
        /\ inv[i].ctx.valid
        /\ PermissionSet(inv[i].ctx) = {"manage_locations", "complete_tasks"}
        /\ EndsIn(inv[i], "Authorization")

\* C2 as stated: every failure of authentication, any exception raised inside
\* validateUserContext included, ends the invocation in the authentication
\* error with no call of getTasks / getLocations.
C2_AsStated ==
    \A i \in Slots :
        LET s == inv[i]
        IN  (AuthenticationFails(s) \/ (s.pc = "done" /\ s.at = "validateUserContext"))
            => EndsIn(s, "Authentication") /\ NoDataFetch(s)

\* C2 amended: a missing user document, an organisation mismatch, a failed
\* call of validateUserContext or any exception raised inside its try block
\* ends the invocation in the authentication error; the exception getUserConfig
\* raises inside validateUserContext, before the try block, ends it in the
\* configuration error; in both cases getTasks / getLocations issued no call.
C2_AuthFailureNoFetch ==
    \A i \in Slots :
        LET s == inv[i]
        IN  /\ (AuthenticationFails(s)
                  \/ (s.pc = "done" /\ s.at = "validateUserContext" /\ ~ConfigMissing))
               => EndsIn(s, "Authentication") /\ NoDataFetch(s)
            /\ (s.pc = "done" /\ s.at = "validateUserContext" /\ ConfigMissing)
               => EndsIn(s, "Configuration") /\ NoDataFetch(s)

\* the user of the configuration belongs to another organisation
C2_Witness ==
    \E i \in Slots :
        /\ inv[i].name = "get_task_status"
        /\ UserDocSeen(inv[i])
        /\ inv[i].userData.exists
        /\ inv[i].userData.orgId = "org2"
        /\ EndsIn(inv[i], "Authentication")

\* C3: when the authentication endpoint answers with a success status and a
\* result whose success is false or absent, the invocation ends in the
\* authentication error: no UserContext is produced and getTasks /
\* getLocations issue no call.
C3_UnsuccessfulResultFails ==
    \A i \in Slots :
        LET s == inv[i]
        IN  (AuthResultSeen(s) /\ s.authResult.success # "true" /\ s.pc = "done")
            => EndsIn(s, "Authentication") /\ ~s.ctx.valid /\ NoDataFetch(s)

C6_FetchAfterOwnAuthentication ==
    \A i \in Slots :
        LET s == inv[i]
        IN  /\ s.pc \in {"idle", "userDoc", "authFetch", "orgDoc"} => ~s.ctx.valid
            /\ CallSet(s) \cap DataFetchSites # {}
               => /\ Len(s.calls) >= 4
                  /\ SubSeq(s.calls, 1, 3) = <<"users.get", "auth.fetch", "organisations.get">>
                  /\ \A k \in 4..Len(s.calls) : s.calls[k] \in DataFetchSites
                  /\ s.failed \cap AuthenticationSites = {}
                  /\ s.userData.exists
                  /\ s.ctx.valid
                  /\ s.ctx.role = (IF s.userData.role = 0 THEN 5 ELSE s.userData.role)
                  /\ s.ctx.firebaseToken = s.authResult.firebaseToken

\* an invocation whose user has role 2 is fetching tasks
C6_Witness ==
    \E i \in Slots :
        /\ inv[i].pc = "tasksQuery"
        /\ inv[i].userData.role = 2
        /\ inv[i].ctx.role = 2

DispatchedRight(s) ==
    /\ s.name = "get_tasks_today" => s.handler = "handleGetTasksToday"
    /\ s.name = "get_locations" => s.handler = "handleGetLocations"
    /\ s.name = "get_task_status" => s.handler = "handleGetTaskStatus"
    /\ s.name \notin KnownTools
       => /\ s.handler = None
          /\ EndsIn(s, "UnknownTool")
          /\ s.calls = <<>>
          /\ s.at = "CallTool"

ReadSites ==
    {"users.get", "auth.fetch", "organisations.get",
     "scheduledTasks.query", "locations.get", "locations.query"}

Matching(s) == {k \in 1..Len(s.tasks) : s.tasks[k].status = s.args.status}

\* C10: get_task_status with a status argument renders the tasks getTasks
\* returned whose status is the argument, each once and no other: the heading
\* shows their number, and when there is none the text is the no-tasks
\* message with the status.
C10_StatusFilter ==
    \A i \in Slots :
        LET s == inv[i]
            text == s.result.text
        IN  (/\ s.handler = "handleGetTaskStatus"
             /\ s.pc = "done"
             /\ s.result.kind = "content"
             /\ s.args.status # None)
            => IF Matching(s) = {}
               THEN text = <<Line("noTasksStatus", 0, s.args.status, 0, <<>>)>>
               ELSE /\ Len(text) = 1 + Cardinality(Matching(s))
                    /\ text[1].k = "statusHeading"
                    /\ text[1].s = s.args.status
                    /\ text[1].n = Cardinality(Matching(s))
                    /\ \A j \in 2..Len(text) :
                          /\ text[j].k = "statusEntry"
                          /\ \E k \in Matching(s) : s.tasks[k].id = text[j].id
                    /\ \A k \in Matching(s) :
                          Cardinality({j \in 2..Len(text) : text[j].id = s.tasks[k].id}) = 1

\* two tasks were returned, one completed and one not, and completed was asked
C10_Witness ==
    \E i \in Slots :
        /\ inv[i].handler = "handleGetTaskStatus"
        /\ inv[i].pc = "done"
        /\ inv[i].args.status = "completed"
        /\ Len(inv[i].tasks) = 2
        /\ Cardinality(Matching(inv[i])) = 1
        /\ Len(inv[i].result.text) = 2

-----------------------------------------------------------------------------
(* get_tasks_today: the two groups *)

\* the positions in the text of s of the entries of kind k for task id
EntriesOf(s, k, id) ==
    {j \in 1..Len(s.result.text) : s.result.text[j].k = k /\ s.result.text[j].id = id}

\* the number shown in the heading of kind k, 0 when the text has no such heading
HeadingNumber(s, k) ==
    IF \E j \in 1..Len(s.result.text) : s.result.text[j].k = k
    THEN (CHOOSE l \in {s.result.text[j] : j \in 1..Len(s.result.text)} : l.k = k).n
    ELSE 0

\* C11: get_tasks_today partitions the tasks getTasks returned into a pending
\* and a completed group: every returned task has exactly one entry, in one of
\* the two groups, the numbers of the two headings sum to the number of
\* returned tasks, and every pending entry stands before every completed one.
C11_Partition ==
    \A i \in Slots :
        LET s == inv[i]
            text == s.result.text
        IN  (/\ s.handler = "handleGetTasksToday"
             /\ s.pc = "done"
             /\ s.result.kind = "content")
            => /\ \A k \in 1..Len(s.tasks) :
                    Cardinality(EntriesOf(s, "pendingEntry", s.tasks[k].id)
                                \cup EntriesOf(s, "completedEntry", s.tasks[k].id)) = 1
               /\ HeadingNumber(s, "pendingHeading") + HeadingNumber(s, "completedHeading")
                    = Len(s.tasks)
               /\ \A p, c \in 1..Len(text) :
                    (text[p].k = "pendingEntry" /\ text[c].k = "completedEntry") => p < c

-----------------------------------------------------------------------------
(* The filter arguments *)

\* the requests s sent at call site site
SentAt(s, site) == {r \in {s.sent[k] : k \in 1..Len(s.sent)} : r.site = site}

\* the keys a request carries
KeysOf(r) == {p[1] : p \in r.params}

\* request r carries argument key of s when s was given one, and no such key
\* when it was not
PassedThrough(s, r, key) ==
    IF s.args[key] # None THEN <<key, s.args[key]>> \in r.params
    ELSE key \notin KeysOf(r)

\* C12: every filter argument given to get_tasks_today (locationId, status)
\* and to get_locations (parentId) is carried by the data fetch of the
\* invocation, an absent one is not, and with a status given the tasks
\* returned to the handler all have that status.
C12_FiltersPassedThrough ==
    \A i \in Slots :
        LET s == inv[i]
        IN  /\ s.handler = "handleGetTasksToday"
               => /\ \A r \in SentAt(s, "scheduledTasks.query") :
                        PassedThrough(s, r, "locationId") /\ PassedThrough(s, r, "status")
                  /\ (s.pc = "done" /\ s.result.kind = "content" /\ s.args.status # None)
                        => \A k \in 1..Len(s.tasks) : s.tasks[k].status = s.args.status
            /\ s.handler = "handleGetLocations"
               => \A r \in SentAt(s, "locations.query") : PassedThrough(s, r, "parentId")

-----------------------------------------------------------------------------
(* The taskId argument *)

\* both runs of the pair are under way, with the same configuration
SameConfigPair ==
    /\ inv[Left].pc # "idle"
    /\ inv[Right].pc # "idle"
    /\ inv[Left].config = inv[Right].config

\* the two argument records differ at most in taskId
SameButTaskId(a, b) == [a EXCEPT !.taskId = None] = [b EXCEPT !.taskId = None]

-----------------------------------------------------------------------------
(* Statuses outside the enumeration *)

KnownStatuses == {"pending", "in_progress", "completed"}

\* the lines of the text of s that show task id
LinesOf(s, id) ==
    {l \in {s.result.text[j] : j \in 1..Len(s.result.text)} :
        l.k \in {"pendingEntry", "completedEntry", "statusEntry"} /\ l.id = id}

\* C14: a task whose document has a status outside pending, in_progress and
\* completed, or no status, is stored with that status as it is, and when the
\* invocation returns content the task is in neither the pending nor the
\* completed group and any line that shows it shows its status as it is.
C14_UnknownStatusVerbatim ==
    \A i \in Slots :
        LET s == inv[i]
        IN  \A k \in 1..Len(s.tasks) :
                s.snapshot[k].status \notin KnownStatuses
                => /\ s.tasks[k].status = s.snapshot[k].status
                   /\ (s.pc = "done" /\ s.result.kind = "content")
                      => \A l \in LinesOf(s, s.tasks[k].id) :
                            /\ l.k \notin {"pendingEntry", "completedEntry"}
                            /\ l.s = s.snapshot[k].status

-----------------------------------------------------------------------------
(* The permission set *)

\* the role validateUserContext resolves from the user document
ResolvedRole(userData) == IF userData.role \in Roles \ {0} THEN userData.role ELSE 5

\* the ids of the permissions of the organisation whose role list has role
GrantedIds(orgData, role) ==
    {orgData.permissions[k].id :
        k \in {j \in 1..Len(orgData.permissions) : role \in orgData.permissions[j].roles}}

\* C15: from the return of validateUserContext to the end of the invocation
\* the permission set of the UserContext is the set of the ids of the
\* organisation's permissions whose role list contains the role of the
\* context, which is the role resolved from the user document read in this
\* invocation.
C15_PermissionsFromRole ==
    \A i \in Slots :
        LET s == inv[i]
        IN  s.ctx.valid
            => /\ s.ctx.role = ResolvedRole(s.userData)
               /\ PermissionSet(s.ctx) = GrantedIds(s.orgData, s.ctx.role)

\* a user of role 2 was granted two of the five permissions and the handler
\* went on to fetch
C15_Witness ==
    \E i \in Slots :
        /\ inv[i].ctx.valid
        /\ inv[i].ctx.role = 2
        /\ inv[i].orgData.permissions = OrgPermissions
        /\ inv[i].ctx.permissions = <<"view_assigned_tasks", "complete_tasks">>
        /\ inv[i].pc = "done"
        /\ inv[i].result.kind = "content"

-----------------------------------------------------------------------------
(* The durable token *)

DurableTokens == {"tokA", TokenB}

\* the values invocation s has sent to the backend
SentValues(s) == UNION {{p[2] : p \in s.sent[k].params} : k \in 1..Len(s.sent)}

\* two configurations that differ in the durable token and in nothing else
DifferInTokenOnly(c, d) ==
    /\ c.clerkToken \in DurableTokens
    /\ d.clerkToken \in DurableTokens
    /\ c.clerkToken # d.clerkToken
    /\ [c EXCEPT !.clerkToken = ""] = [d EXCEPT !.clerkToken = ""]

-----------------------------------------------------------------------------
(* Tokens in the diagnostics *)

\* the tokens invocation s holds: the durable one and the one authentication
\* returned
TokensOf(s) == {s.config.clerkToken, s.authResult.firebaseToken} \ {None, ""}

\* the values the diagnostics of s show in full
ShownInFull(s) ==
    UNION {{p[1] : p \in {q \in s.log[k].shown : q[2] = "full"}} : k \in 1..Len(s.log)}

\* C17: no diagnostic line of an invocation shows a token in full, the durable
\* token or the access token authentication returned.
C17_NoFullTokenInDiagnostics ==
    \A i \in Slots : ShownInFull(inv[i]) \cap TokensOf(inv[i]) = {}

-----------------------------------------------------------------------------
(* No retry *)

\* how often invocation s has issued the call at site
Count(s, site) == Cardinality({k \in 1..Len(s.calls) : s.calls[k] = site})

\* the call sites an invocation reaches once
OncePerInvocation ==
    {"users.get", "auth.fetch", "organisations.get", "scheduledTasks.query",
     "locations.query"}

\* the documents of the snapshot getTasks has got to: those turned into tasks
\* and the one whose location is being read
Reached(s) ==
    1..(Len(s.snapshot) - Len(s.docs) + (IF s.pc = "locLookup" THEN 1 ELSE 0))

\* C18: an invocation issues each of the user read, the authentication
\* request, the organisation read, the task query and the location query at
\* most once, and the location read once for each task document with a
\* location it has got to; after one of the former has failed the invocation
\* has ended and the failed call is the last one issued.
C18_NoRetry ==
    \A i \in Slots :
        LET s == inv[i]
        IN  /\ \A site \in OncePerInvocation : Count(s, site) <= 1
            /\ Count(s, "locations.get")
                 = Cardinality({k \in Reached(s) : s.snapshot[k].locationId # None})
            /\ s.failed \cap OncePerInvocation # {}
               => /\ s.pc = "done"
                  /\ s.calls[Len(s.calls)] \in s.failed

\* the location read of the first of two tasks failed and the read of the
\* second was issued, once
C18_Witness ==
    \E i \in Slots :
        /\ inv[i].pc = "done"
        /\ inv[i].failed = {"locations.get"}
        /\ Len(inv[i].snapshot) = 2
        /\ Count(inv[i], "locations.get") = 2
        /\ Count(inv[i], "scheduledTasks.query") = 1

-----------------------------------------------------------------------------
(* One invocation at a time *)

\* the invocations between their first backend call and their response
InFlight == {i \in Slots : inv[i].pc \notin {"idle", "done"}}

\* C19: at most one invocation is between its first backend call and its
\* final response, also when the host sends a request while an invocation
\* awaits a backend reply.
C19_OneInFlight == Cardinality(InFlight) <= 1

-----------------------------------------------------------------------------
(* Process lifecycle *)

\* C20: a connected process leaves the serving state by a signal only; a
\* signal can be taken in every state of a running process, whatever is in
\* flight, and ends the process at once with status 0; a connect that fails
\* ends the process with status 1; a process that has ended stays ended.
C20_Lifecycle ==
    /\ [](proc \in {"constructed", "serving"} => exitCode = -1 /\ ENABLED Signal)
    /\ [][/\ (proc = "serving" /\ proc' # "serving") => Signal
          /\ Signal => (proc' = "exited" /\ exitCode' = 0)
          /\ (Run /\ proc' # "serving") => (proc' = "exited" /\ exitCode' = 1)
          /\ proc = "exited" => (proc' = "exited" /\ exitCode' = exitCode)]_vars

\* the process connected, served a tool call and was ended by a signal
C20_Witness == proc = "exited" /\ exitCode = 0 /\ db = "firestore"

-----------------------------------------------------------------------------
(* The tool listing *)

\* the three descriptors, by name, in the order of the listing
ThreeTools == <<"get_tasks_today", "get_locations", "get_task_status">>

\* C21: the listing is the three tool descriptors get_tasks_today,
\* get_locations, get_task_status in that order whatever the state it is made
\* in, and the step that makes it leaves the backend handle, the
\* configuration, the process and every invocation as they are: no backend
\* call is issued.
C21_ListingIsPure ==
    /\ [](listed \in {<<>>, ThreeTools})
    /\ [][(listed = <<>> /\ listed' # <<>>)
            => /\ listed' = ThreeTools
               /\ UNCHANGED <<proc, exitCode, env, db, adminApps, inv>>]_vars

\* the tools are listed by a server whose handle is set and whose durable
\* token is missing
C21_Witness ==
    /\ listed = ThreeTools
    /\ db = "firestore"
    /\ env.clerkToken = ""
    /\ \A i \in Slots : inv[i].calls = <<>>

-----------------------------------------------------------------------------
(* get_locations: the groups *)

\* the heading of a level, and the place of the heading in the ascending
\* order of strings
HeadingOf == [building |-> "BUILDING", site |-> "SITE", unknown |-> "UNKNOWN"]
HeadingRank == [BUILDING |-> 1, SITE |-> 2, UNKNOWN |-> 3]

\* the positions of the lines of kind k in text
LinesOfKind(text, k) == {j \in 1..Len(text) : text[j].k = k}

\* the heading line the line at position j stands under
HeadingAbove(text, j) ==
    text[CHOOSE h \in LinesOfKind(text, "levelHeading") :
            h < j /\ \A g \in LinesOfKind(text, "levelHeading") : g < j => g <= h]

\* C22: get_locations renders every location getLocations returned exactly
\* once, with its id, under the heading of its level; there is one heading
\* for each level that occurs and none for another, the headings stand in
\* ascending order of the level names, and the title shows the number of
\* locations returned.
C22_LocationsGrouped ==
    \A i \in Slots :
        LET s == inv[i]
            text == s.result.text
            headings == LinesOfKind(text, "levelHeading")
            entries == LinesOfKind(text, "locationEntry")
            levels == {s.locations[k].level : k \in 1..Len(s.locations)}
        IN  (/\ s.handler = "handleGetLocations"
             /\ s.pc = "done"
             /\ s.result.kind = "content"
             /\ Len(s.locations) > 0)
            => /\ text[1].k = "locationsTitle"
               /\ text[1].n = Len(s.locations)
               /\ Cardinality(entries) = Len(s.locations)
               /\ \A k \in 1..Len(s.locations) :
                     \E j \in entries :
                        /\ text[j].id = s.locations[k].id
                        /\ \A h \in entries : text[h].id = s.locations[k].id => h = j
                        /\ \E g \in headings : g < j
                        /\ HeadingAbove(text, j).s = HeadingOf[s.locations[k].level]
               /\ {text[h].s : h \in headings} = {HeadingOf[l] : l \in levels}
               /\ Cardinality(headings) = Cardinality(levels)
               /\ \A g, h \in headings :
                     g < h => HeadingRank[text[g].s] < HeadingRank[text[h].s]

\* a site, then a building were returned: the building is rendered first
C22_Witness ==
    \E i \in Slots :
        /\ inv[i].handler = "handleGetLocations"
        /\ inv[i].pc = "done"
        /\ Len(inv[i].locations) = 2
        /\ inv[i].locations[1].level = "site"
        /\ inv[i].locations[2].level = "building"
        /\ Len(inv[i].result.text) = 5
        /\ inv[i].result.text[3].id = 2

-----------------------------------------------------------------------------
(* handleCompleteTask: the order of its checks *)

\* the completion endpoint has been called
CompletionCalled(s) == "completeTask.fetch" \in CallSet(s)

\* validateUserContext has returned to handleCompleteTask
Authenticated(s) == s.handler = "handleCompleteTask" /\ s.ctx.valid

MayComplete(s) == "complete_tasks" \in PermissionSet(s.ctx)

\* C23: handleCompleteTask calls the completion endpoint only after
\* authentication succeeded, with complete_tasks in the permission set and a
\* taskId supplied; without the permission it ends in the authorization error
\* whether or not a taskId was supplied, with the permission and no taskId it
\* ends in the validation error, and in both cases the completion endpoint
\* is not called.
C23_CompleteAfterChecks ==
    \A i \in Slots :
        LET s == inv[i]
        IN  /\ (s.handler = "handleCompleteTask" /\ CompletionCalled(s))
                => /\ AuthResultSeen(s) /\ s.authResult.success = "true"
                   /\ MayComplete(s)
                   /\ s.args.given /\ s.args.taskId # None
            /\ (Authenticated(s) /\ ~MayComplete(s))
                => EndsIn(s, "Authorization") /\ ~CompletionCalled(s)
            /\ (Authenticated(s) /\ MayComplete(s) /\ s.args.given /\ s.args.taskId = None)
                => EndsIn(s, "Validation") /\ ~CompletionCalled(s)

-----------------------------------------------------------------------------
(* validateUserContext: users of another organisation, unknown users *)

\* the user document that was read is absent, or is of another organisation
\* than the configured one
ForeignOrUnknownUser(s) ==
    UserDocSeen(s) /\ (~s.userData.exists \/ s.userData.orgId # env.orgId)

\* C24: when the user document is absent or its organisation differs from
\* the configured organisation id, the invocation ends in the authentication
\* error having made the read of the user document and no other call: the
\* authentication endpoint is not called, the organisation document is not
\* read, no data is fetched and no content is rendered.
C24_ForeignUserRejectedEarly ==
    \A i \in Slots :
        LET s == inv[i]
        IN  ForeignOrUnknownUser(s)
            => /\ EndsIn(s, "Authentication")
               /\ s.calls = <<"users.get">>
               /\ CallSet(s) \cap {"auth.fetch", "organisations.get"} = {}
               /\ NoDataFetch(s)
               /\ ~s.ctx.valid
               /\ s.result.text = <<>>

\* get_locations for a user id that has no user document
C24_Witness ==
    \E i \in Slots :
        /\ inv[i].name = "get_locations"
        /\ ForeignOrUnknownUser(inv[i])
        /\ ~inv[i].userData.exists
        /\ inv[i].pc = "done"
        /\ Len(inv[i].calls) = 1

-----------------------------------------------------------------------------
(* The backend handle *)

\* the invocation in slot i is of one of the three tools
ToolInvocation(i) == inv[i].pc # "idle" /\ inv[i].name \in KnownTools

\* C25: the backend handle is null from construction until the first tool
\* invocation; every tool invocation initialises it before it authenticates;
\* once set it is never assigned again; when initialisation fails the handle
\* stays null and the invocation ends without a backend call, and the next
\* invocation tries again.
C25_HandleSetOnce ==
    /\ [](\A i \in Slots :
            /\ (ToolInvocation(i) /\ ~EndsIn(inv[i], "FirebaseInit")) => db = "firestore"
            /\ inv[i].calls # <<>> => db = "firestore"
            /\ EndsIn(inv[i], "FirebaseInit") => db = "null" /\ inv[i].calls = <<>>)
    /\ [](proc = "constructed" => db = "null")
    /\ [][/\ db # "null" => db' = db
          /\ db' # db
                => \E i \in Slots :
                      /\ inv[i].pc = "idle"
                      /\ inv'[i].pc # "idle"
                      /\ inv'[i].name \in KnownTools
          /\ \A i \in Slots :
                (inv[i].pc = "idle" /\ inv'[i].pc # "idle" /\ inv'[i].name \in KnownTools)
                    => \/ db' = "firestore" /\ ~EndsIn(inv'[i], "FirebaseInit")
                       \/ db = "null" /\ db' = "null" /\ EndsIn(inv'[i], "FirebaseInit")]_vars

\* an invocation failed in admin.firestore() after the app was created: the
\* handle is null and nothing was sent
C25_Witness ==
    \E i \in Slots :
        /\ ToolInvocation(i)
        /\ EndsIn(inv[i], "FirebaseInit")
        /\ inv[i].calls = <<>>
        /\ adminApps
        /\ db = "null"

====
